---- MODULE Spec2Model ----
(***************************************************************************)
(* candid-captions: the bounded-concurrency runner (ParallelProcessor),    *)
(* the per-image pipeline it runs (processImage), and the orchestrator's   *)
(* logging of the outcomes (main, Logger).                                 *)
(*                                                                         *)
(* JavaScript runs one synchronous block at a time; every action below is  *)
(* one such block: the code between two suspension points (await).         *)
(* The per-image timing fields (processingTime, timestamp) and the         *)
(* keyword/tag context are left out of the state: no formula reads them.   *)
(***************************************************************************)
EXTENDS Integers, Sequences, FiniteSets, TLC

\* ------------------------------------------------------------- bounds
MaxItems == 3
MaxConcurrency == 2

\* The value of an absent property / of a variable never assigned.
Undefined == "<undefined>"

\* JavaScript truthiness of a string-or-undefined value.
Truthy(v) == v # Undefined /\ v # ""

\* a || b
Or(a, b) == IF Truthy(a) THEN a ELSE b

VARIABLES
    concurrency,   \* ParallelProcessor.concurrency
    activeCount,   \* ParallelProcessor.activeCount
    queue,         \* ParallelProcessor.queue: the deferred run thunks, by item index
    items,         \* the list handed to process (jpegFiles in main)
    hangs,         \* the items whose exiftool read never returns (a hung external call)
    pc,            \* where the caller of process stands
    mapIdx,        \* the index items.map has reached
    st,            \* per item: where its enqueue/run/processImage stands
    existing,      \* per item: processImage's existingMetadata.caption
    caption,       \* per item: processImage's caption, once generated
    settled,       \* per item: what the promise processor(item) settled with
    results,       \* process's results array (sparse)
    started,       \* the items processor was invoked on, in invocation order
    calls,         \* per item: the collaborator calls processImage has made
    returned,      \* the array process resolved with
    logIdx,        \* main's position in "for (const result of results)"
    successCount,  \* main's successCount
    errorCount,    \* main's errorCount
    logs,          \* Logger.logs
    summary,       \* the document Logger.save wrote
    exif,          \* processImage's metadata: the fields readImageMetadata returned
    passed         \* the existingMetadata.caption processImage built from exif

vars == <<concurrency, activeCount, queue, items, hangs, pc, mapIdx, st, existing,
          caption, settled, results, started, calls, returned, logIdx, successCount,
          errorCount, logs, summary, exif, passed>>

\* ------------------------------------------------------------- values
Pending == [kind |-> "pending"]
Hole == [kind |-> "hole"]
NoSummary == [kind |-> "none"]
NotBuilt == [version |-> "none", caption |-> Undefined]

\* path.join(INPUT_DIR, file): the directory listing names each file once.
InputPath(i) == "input/" \o ToString(i) \o ".jpg"

N == Len(items)
Idx == 1..N

\* What exiftool reports for the three caption-bearing fields of a file.
MetadataSamples ==
    { [CaptionAbstract |-> Undefined, Description |-> Undefined, ImageDescription |-> Undefined],
      [CaptionAbstract |-> "",        Description |-> "D",       ImageDescription |-> "ID"] }

\* {}: no field is present.
EmptyMetadata ==
    [CaptionAbstract |-> Undefined, Description |-> Undefined, ImageDescription |-> Undefined]

\* metadata["Caption-Abstract"] || metadata["Description"] || metadata["ImageDescription"]
ExistingCaption(m) == Or(m.CaptionAbstract, Or(m.Description, m.ImageDescription))

\* existingMetadata.caption: set only when existingCaption is truthy.
ContextCaption(m) ==
    IF Truthy(ExistingCaption(m)) THEN ExistingCaption(m) ELSE Undefined

\* Messages of the errors sharp raises on opening and re-encoding a file (the
\* library gives no guarantee on them; an Error's message may be empty).
SharpMessages == {"", "Input file is missing"}

\* Message of the error sharp raises on re-reading the resized buffer.
StripMessages == {"Input buffer contains unsupported image format"}

\* resizeImage: its own error, or sharp's.
ResizeMessages == {"Unable to get image dimensions"} \cup SharpMessages

\* generateCaption's catch wraps every failure.
CaptionFailure(inner) == "Failed to generate caption: " \o inner

\* writeCaption's catch wraps every failure.
WriteFailure(inner) == "Failed to write caption to image: " \o inner

\* The text the model returned, trimmed.
Captions == {"A caption"}

\* processImage's return value.
ImageResult(i) ==
    [imagePath |-> items[i], caption |-> caption[i], error |-> Undefined,
     existingCaption |-> existing[i]]

\* processImage's catch: the object it throws.
ImageError(i, message) ==
    [imagePath |-> items[i], caption |-> Undefined, error |-> message,
     existingCaption |-> Undefined]

Fulfilled(v) == [kind |-> "result", val |-> v]
Rejected(e) == [kind |-> "error", val |-> e]

\* ------------------------------------------------------------- the runner

\* A variant of the admission test that admits one operation too many.
HasFreeSlotOffByOne == activeCount <= concurrency

\* A variant that clamps a concurrency below 1 to 1.
HasFreeSlotClamped == activeCount < (IF concurrency < 1 THEN 1 ELSE concurrency)

\* A variant of the admission test that defers while one slot is still free.
HasFreeSlotTooStrict == activeCount < concurrency - 1

\* enqueue's admission test.
HasFreeSlot == activeCount < concurrency

\* A variant of the finally that does not give the slot back.
ReleasedNot(a) == a

\* run's finally: "this.activeCount--".
Released(a) == a - 1

\* A variant of the finally's test that leaves the last deferred thunk behind.
QueueHasWorkButOne(q) == Len(q) > 1

\* run's finally: "if (this.queue.length > 0)".
QueueHasWork(q) == Len(q) > 0

\* A variant that takes the newest thunk (pop) where shift takes the oldest.
QueueLast(q) == q[Len(q)]

\* A variant that reads the head without removing it.
QueueKeep(q) == q

\* this.queue.shift(): the thunk taken.
QueueHead(q) == Head(q)

\* this.queue.shift(): what stays in the queue.
QueueRest(q) == Tail(q)

\* A variant whose catch swallows the error without storing an entry.
EntryDropError(i, o) ==
    IF o.kind = "error" THEN Hole ELSE [item |-> items[i], kind |-> o.kind, val |-> o.val]

\* The entry fn stores: { item, result } from the try, { item, error } from the catch.
Entry(i, o) == [item |-> items[i], kind |-> o.kind, val |-> o.val]

\* The length of the sparse array: one past the last assigned slot.
ArrayLength(a) ==
    IF \A j \in DOMAIN a : a[j] = Hole
      THEN 0
      ELSE CHOOSE j \in DOMAIN a : a[j] # Hole /\ \A h \in DOMAIN a : h > j => a[h] = Hole

\* The array as a list, holes included.
ArrayOf(a) == [j \in 1..ArrayLength(a) |-> a[j]]

\* A variant that settles on the first enqueue promise (Promise.race).
PromiseAnyFulfilled == \E i \in Idx : st[i] = "finished"

\* A variant that counts completions and so never settles an empty batch.
PromiseAllCounted == N > 0 /\ \A i \in Idx : st[i] = "finished"

\* A variant that appends (results.push) where fn assigns results[index].
ResultIndexPush(i) == ArrayLength(results) + 1

\* The slot of results that fn writes for the item of index i.
ResultIndex(i) == i

\* Promise.all over the enqueue promises: fulfilled once each has resolved.
PromiseAllFulfilled == \A i \in Idx : st[i] = "finished"

Init ==
    /\ concurrency \in -1..MaxConcurrency
    /\ activeCount = 0
    /\ queue = <<>>
    /\ \E n \in 0..MaxItems : items = [i \in 1..n |-> InputPath(i)]
    /\ hangs \in SUBSET (1..Len(items))
    /\ pc = "init"
    /\ mapIdx = 1
    /\ st = [i \in 1..Len(items) |-> "new"]
    /\ existing = [i \in 1..Len(items) |-> Undefined]
    /\ caption = [i \in 1..Len(items) |-> Undefined]
    /\ settled = [i \in 1..Len(items) |-> Pending]
    /\ results = [i \in 1..Len(items) |-> Hole]
    /\ started = <<>>
    /\ calls = [i \in 1..Len(items) |-> <<>>]
    /\ returned = <<>>
    /\ logIdx = 1
    /\ successCount = 0
    /\ errorCount = 0
    /\ logs = <<>>
    /\ summary = NoSummary
    /\ exif = EmptyMetadata
    /\ passed = NotBuilt

\* main: no JPEG files found, warn and return before a runner is built.
MainNoFiles ==
    /\ pc = "init"
    /\ N = 0
    /\ pc' = "exit"
    /\ UNCHANGED <<exif, passed, concurrency, activeCount, queue, items, hangs, mapIdx, st, existing,
                   caption, settled, results, started, calls, returned, logIdx, successCount,
                   errorCount, logs, summary>>

\* process is called: results = [], and items.map begins.  The runner is an
\* exported class: it is also driven on an empty list, which main never does.
ProcessCall ==
    /\ pc = "init"
    /\ pc' = IF N = 0 THEN "awaiting" ELSE "mapping"
    /\ UNCHANGED <<exif, passed, concurrency, activeCount, queue, items, hangs, mapIdx, st, existing,
                   caption, settled, results, started, calls, returned, logIdx, successCount,
                   errorCount, logs, summary>>

\* One turn of items.map: enqueue(fn) for the item of index i.  run() is
\* synchronous up to processImage's first await, the metadata read.
Enqueue(i) ==
    /\ pc = "mapping"
    /\ i = mapIdx
    /\ IF HasFreeSlot
         THEN /\ activeCount' = activeCount + 1
              /\ st' = [st EXCEPT ![i] = "readMeta"]
              /\ started' = Append(started, i)
              /\ calls' = [calls EXCEPT ![i] = Append(@, "readImageMetadata")]
              /\ UNCHANGED queue
         ELSE /\ queue' = Append(queue, i)
              /\ st' = [st EXCEPT ![i] = "queued"]
              /\ UNCHANGED <<activeCount, started, calls>>
    /\ mapIdx' = i + 1
    /\ pc' = IF i = N THEN "awaiting" ELSE "mapping"
    /\ UNCHANGED <<exif, passed, concurrency, items, hangs, existing, caption, settled, results, returned,
                   logIdx, successCount, errorCount, logs, summary>>

\* processImage's catch, reached from the stage that failed: item i's promise
\* rejects with the thrown object.
Throw(i, message) ==
    /\ st' = [st EXCEPT ![i] = "settled"]
    /\ settled' = [settled EXCEPT ![i] = Rejected(ImageError(i, message))]
    /\ existing' = [existing EXCEPT ![i] = Undefined]
    /\ caption' = [caption EXCEPT ![i] = Undefined]

\* What the exiftool subprocess and the parse of its output come to.
ExifOutcomes ==
    {[ok |-> TRUE, metadata |-> m] : m \in MetadataSamples}
        \cup {[ok |-> FALSE, metadata |-> EmptyMetadata]}

\* A variant of readImageMetadata without its catch.
ReadThrowsOnFailure(o) == ~o.ok

\* readImageMetadata's try/catch: no failure of the read leaves the function.
ReadThrows(o) == FALSE

\* readImageMetadata's value: the parsed fields, or {} from its catch.
ReadImageMetadata(o) == IF o.ok THEN o.metadata ELSE EmptyMetadata

\* readImageMetadata returns; then existingMetadata is built and resizeImage is
\* called.  A hung read never returns.
ReadMetadataDone(i) ==
    /\ pc = "awaiting"
    /\ st[i] = "readMeta"
    /\ i \notin hangs
    /\ \E o \in ExifOutcomes :
          IF ReadThrows(o)
            THEN /\ Throw(i, "Error reading metadata")
                 /\ UNCHANGED calls
            ELSE /\ existing' = [existing EXCEPT ![i] = ContextCaption(ReadImageMetadata(o))]
                 /\ st' = [st EXCEPT ![i] = "resize"]
                 /\ calls' = [calls EXCEPT ![i] = Append(@, "resizeImage")]
                 /\ UNCHANGED <<caption, settled>>
    /\ UNCHANGED <<exif, passed, concurrency, activeCount, queue, items, hangs, pc, mapIdx,
                   results, started, returned, logIdx, successCount, errorCount, logs,
                   summary>>

\* resizeImage returns or throws.
ResizeDone(i) ==
    /\ pc = "awaiting"
    /\ st[i] = "resize"
    /\ \/ /\ st' = [st EXCEPT ![i] = "strip"]
          /\ calls' = [calls EXCEPT ![i] = Append(@, "stripMetadata")]
          /\ UNCHANGED <<existing, caption, settled>>
       \/ /\ \E msg \in ResizeMessages : Throw(i, msg)
          /\ UNCHANGED calls
    /\ UNCHANGED <<exif, passed, concurrency, activeCount, queue, items, hangs, pc, mapIdx,
                   results, started, returned, logIdx, successCount, errorCount, logs,
                   summary>>

\* stripMetadata returns or throws.
StripDone(i) ==
    /\ pc = "awaiting"
    /\ st[i] = "strip"
    /\ \/ /\ st' = [st EXCEPT ![i] = "caption"]
          /\ calls' = [calls EXCEPT ![i] = Append(@, "generateCaption")]
          /\ UNCHANGED <<existing, caption, settled>>
       \/ /\ \E msg \in StripMessages : Throw(i, msg)
          /\ UNCHANGED calls
    /\ UNCHANGED <<exif, passed, concurrency, activeCount, queue, items, hangs, pc, mapIdx,
                   results, started, returned, logIdx, successCount, errorCount, logs,
                   summary>>

\* generateCaption returns the trimmed text, and writeCaption is called with it;
\* or it throws.
CaptionDone(i) ==
    /\ pc = "awaiting"
    /\ st[i] = "caption"
    /\ \/ /\ \E c \in Captions : caption' = [caption EXCEPT ![i] = c]
          /\ st' = [st EXCEPT ![i] = "write"]
          /\ calls' = [calls EXCEPT ![i] = Append(@, "writeCaption")]
          /\ UNCHANGED <<existing, settled>>
       \/ /\ Throw(i, CaptionFailure("No caption generated"))
          /\ UNCHANGED calls
    /\ UNCHANGED <<exif, passed, concurrency, activeCount, queue, items, hangs, pc, mapIdx,
                   results, started, returned, logIdx, successCount, errorCount, logs,
                   summary>>

\* writeCaption returns, and processImage returns its result; or it throws.
WriteDone(i) ==
    /\ pc = "awaiting"
    /\ st[i] = "write"
    /\ \/ /\ st' = [st EXCEPT ![i] = "settled"]
          /\ settled' = [settled EXCEPT ![i] = Fulfilled(ImageResult(i))]
          /\ UNCHANGED <<existing, caption>>
       \/ Throw(i, WriteFailure("exiftool failed"))
    /\ UNCHANGED <<exif, passed, concurrency, activeCount, queue, items, hangs, pc, mapIdx, calls,
                   results, started, returned, logIdx, successCount, errorCount, logs,
                   summary>>

\* fn resumes after "await processor(item)": the try or the catch stores the entry.
FnContinue(i) ==
    /\ pc = "awaiting"
    /\ st[i] = "settled"
    /\ results' = [results EXCEPT ![ResultIndex(i)] = Entry(i, settled[i])]
    /\ st' = [st EXCEPT ![i] = "recorded"]
    /\ UNCHANGED <<exif, passed, concurrency, activeCount, queue, items, hangs, pc, mapIdx, existing,
                   caption, settled, started, calls, returned, logIdx, successCount,
                   errorCount, logs, summary>>

\* run's finally: activeCount--, then the queue's head (if any) is shifted out
\* and run, which is synchronous up to its metadata read; then resolve().
RunFinally(i) ==
    /\ pc = "awaiting"
    /\ st[i] = "recorded"
    /\ IF QueueHasWork(queue)
         THEN /\ queue' = QueueRest(queue)
              /\ activeCount' = Released(activeCount) + 1
              /\ st' = [st EXCEPT ![i] = "finished", ![QueueHead(queue)] = "readMeta"]
              /\ started' = Append(started, QueueHead(queue))
              /\ calls' = [calls EXCEPT ![QueueHead(queue)] = Append(@, "readImageMetadata")]
         ELSE /\ activeCount' = Released(activeCount)
              /\ st' = [st EXCEPT ![i] = "finished"]
              /\ UNCHANGED <<queue, started, calls>>
    /\ UNCHANGED <<exif, passed, concurrency, items, hangs, pc, mapIdx, existing, caption, settled,
                   results, returned, logIdx, successCount, errorCount, logs, summary>>

\* Promise.all is fulfilled and process returns results.
ProcessReturn ==
    /\ pc = "awaiting"
    /\ PromiseAllFulfilled
    /\ pc' = "resolved"
    /\ returned' = ArrayOf(results)
    /\ UNCHANGED <<exif, passed, concurrency, activeCount, queue, items, hangs, mapIdx, st, existing,
                   caption, settled, results, started, calls, logIdx, successCount,
                   errorCount, logs, summary>>

\* ------------------------------------------------------------- main, Logger

\* result.error.message: processImage throws a plain object, which has none.
ErrorMessageProperty(e) == Undefined

\* Logger.log's entry for a success: the processImage result itself.
SuccessEntry(r) ==
    [imagePath |-> r.val.imagePath, caption |-> r.val.caption, error |-> Undefined]

\* Logger.log's entry for a failure, as main builds it.
FailureEntry(r) ==
    [imagePath |-> Or(r.val.imagePath, r.item),
     caption |-> Undefined,
     error |-> Or(r.val.error, ErrorMessageProperty(r.val))]

\* Logger.save's counts.
Successful(l) == Cardinality({j \in DOMAIN l : ~Truthy(l[j].error)})
Failed(l) == Cardinality({j \in DOMAIN l : Truthy(l[j].error)})
Summary(l) ==
    [kind |-> "summary", totalImages |-> Len(l), successful |-> Successful(l),
     failed |-> Failed(l), logs |-> l]

\* One turn of main's "for (const result of results)".
LogResult ==
    /\ pc = "resolved"
    /\ N > 0
    /\ logIdx <= Len(returned)
    /\ LET r == returned[logIdx] IN
         IF r.kind = "result"
           THEN /\ logs' = Append(logs, SuccessEntry(r))
                /\ successCount' = successCount + 1
                /\ UNCHANGED errorCount
           ELSE IF r.kind = "error"
             THEN /\ logs' = Append(logs, FailureEntry(r))
                  /\ errorCount' = errorCount + 1
                  /\ UNCHANGED successCount
             ELSE UNCHANGED <<logs, successCount, errorCount>>
    /\ logIdx' = logIdx + 1
    /\ UNCHANGED <<exif, passed, concurrency, activeCount, queue, items, hangs, pc, mapIdx, st, existing,
                   caption, settled, results, started, calls, returned, summary>>

\* logger.save() after the loop: the summary document is written.
Save ==
    /\ pc = "resolved"
    /\ N > 0
    /\ logIdx > Len(returned)
    /\ summary' = Summary(logs)
    /\ pc' = "saved"
    /\ UNCHANGED <<exif, passed, concurrency, activeCount, queue, items, hangs, mapIdx, st, existing,
                   caption, settled, results, started, calls, returned, logIdx,
                   successCount, errorCount, logs>>

\* logger.save() throws (mkdir or writeFile fails): main's catch exits with 1.
SaveFails ==
    /\ pc = "resolved"
    /\ N > 0
    /\ logIdx > Len(returned)
    /\ pc' = "exit1"
    /\ UNCHANGED <<exif, passed, concurrency, activeCount, queue, items, hangs, mapIdx, st, existing,
                   caption, settled, results, started, calls, returned, logIdx,
                   successCount, errorCount, logs, summary>>

Next ==
    \/ MainNoFiles
    \/ ProcessCall
    \/ \E i \in Idx : Enqueue(i)
    \/ \E i \in Idx : ReadMetadataDone(i)
    \/ \E i \in Idx : ResizeDone(i)
    \/ \E i \in Idx : StripDone(i)
    \/ \E i \in Idx : CaptionDone(i)
    \/ \E i \in Idx : WriteDone(i)
    \/ \E i \in Idx : FnContinue(i)
    \/ \E i \in Idx : RunFinally(i)
    \/ ProcessReturn
    \/ LogResult
    \/ Save
    \/ SaveFails

Spec == Init /\ [][Next]_vars

\* The event loop runs every continuation that is ready, and every external
\* call other than a hung metadata read returns.
FairSpec == Spec /\ WF_vars(Next)

\* ------------------------------------------------------------- the caption context

\* The values a caption-bearing field can hold: absent, empty, or a text.
FieldValues(tag) == {Undefined, "", tag, tag \o " (long)"}

\* Every combination of the three fields that passes ExifMetadataSchema.
AllMetadata ==
    [CaptionAbstract : FieldValues("CA"), Description : FieldValues("D"),
     ImageDescription : FieldValues("ID")]

\* a ?? b (the schema admits strings only: no field is null)
Nullish(a, b) == IF a # Undefined THEN a ELSE b

\* metadata["Caption-Abstract"] ?? metadata.Description ?? metadata.ImageDescription
ExistingCaptionNullish(m) ==
    Nullish(m.CaptionAbstract, Nullish(m.Description, m.ImageDescription))

\* existingMetadata.caption in the typed index.ts: set only when truthy.
ContextCaptionNullish(m) ==
    IF Truthy(ExistingCaptionNullish(m)) THEN ExistingCaptionNullish(m) ELSE Undefined

\* processImage has read the fields of one file; the runner is idle.
InitContext ==
    /\ exif \in AllMetadata
    /\ passed = NotBuilt
    /\ concurrency = MaxConcurrency
    /\ activeCount = 0
    /\ queue = <<>>
    /\ items = <<>>
    /\ hangs = {}
    /\ pc = "init"
    /\ mapIdx = 1
    /\ st = <<>>
    /\ existing = <<>>
    /\ caption = <<>>
    /\ settled = <<>>
    /\ results = <<>>
    /\ started = <<>>
    /\ calls = <<>>
    /\ returned = <<>>
    /\ logIdx = 1
    /\ successCount = 0
    /\ errorCount = 0
    /\ logs = <<>>
    /\ summary = NoSummary

\* processImage of src/src/index.ts builds existingMetadata (with ||).
BuildContext ==
    /\ passed = NotBuilt
    /\ passed' = [version |-> "index.ts", caption |-> ContextCaption(exif)]
    /\ UNCHANGED <<exif, concurrency, activeCount, queue, items, hangs, pc, mapIdx, st,
                   existing, caption, settled, results, started, calls, returned, logIdx,
                   successCount, errorCount, logs, summary>>

\* processImage of the typed index.ts builds existingMetadata (with ??).
BuildContextNullish ==
    /\ passed = NotBuilt
    /\ passed' = [version |-> "typed index.ts", caption |-> ContextCaptionNullish(exif)]
    /\ UNCHANGED <<exif, concurrency, activeCount, queue, items, hangs, pc, mapIdx, st,
                   existing, caption, settled, results, started, calls, returned, logIdx,
                   successCount, errorCount, logs, summary>>

NextContext ==
    \/ BuildContext
    \/ BuildContextNullish

SpecContext == InitContext /\ [][NextContext]_vars

\* ------------------------------------------------------------- properties

\* The operations that have started and not yet finished: processor(item) was
\* called and its promise has not settled.
Running == {i \in Idx : st[i] \in {"readMeta", "resize", "strip", "caption", "write"}}

\* process has resolved (main may have gone on to log and save).
Resolved == pc \in {"resolved", "saved", "exit1"}

\* The positions of item i in the invocation order.
StartsOf(i) == {p \in DOMAIN started : started[p] = i}

\* The entry the runner owes item i once its operation has settled.
Owed(i) == [item |-> items[i], kind |-> settled[i].kind, val |-> settled[i].val]

\* C1: with concurrency k >= 1, at most k operations are in flight, activeCount
\* stays within 0..k, and an item beyond the first k is started only after an
\* earlier operation has finished.
C1_ConcurrencyBound ==
    concurrency >= 1 =>
        /\ Cardinality(Running) <= concurrency
        /\ activeCount \in 0..concurrency
        /\ \A j \in Idx :
              (j > concurrency /\ StartsOf(j) # {}) =>
                  \E i \in 1..(j - 1) : settled[i] # Pending

\* C1 witness: all k slots busy with work waiting, and later the item k+1 running.
C1_Witness ==
    /\ concurrency = 2
    /\ N = 3
    /\ Cardinality(Running) = 2
    /\ 3 \in Running
    /\ activeCount = 2

\* C2: every stored entry sits at its item's index and carries that item and
\* its operation's outcome; the returned list has length n and no missing slot.
C2_IndexCorrespondence ==
    /\ \A i \in Idx : results[i] # Hole => (settled[i] # Pending /\ results[i] = Owed(i))
    /\ Resolved =>
          /\ Len(returned) = N
          /\ \A i \in Idx : returned[i] # Hole /\ returned[i] = Owed(i)

\* C2 witness: the entries of items 2 and 3 are stored while the slot of item 1,
\* started first, is still empty (completion order differs from input order).
C2_Witness ==
    /\ N = 3
    /\ results[3] # Hole
    /\ results[2] # Hole
    /\ results[1] = Hole
    /\ 1 \in Running

\* C3: process resolves with a Failure entry carrying the error at exactly the
\* indices whose operation rejected and a Success entry elsewhere; once every
\* item is through, nothing keeps process from resolving; a rejection changes
\* no other item and not the queue; and the finally of a failed item starts the
\* queue's head like any other.
C3_Outcomes ==
    /\ Resolved =>
          /\ DOMAIN returned = Idx
          /\ \A i \in Idx :
                /\ settled[i].kind \in {"result", "error"}
                /\ returned[i].kind = settled[i].kind
                /\ returned[i].val = settled[i].val
    /\ (pc = "awaiting" /\ \A i \in Idx : st[i] = "finished") => ENABLED ProcessReturn

C3_RejectionStep ==
    \A i \in Idx :
        (settled[i] = Pending /\ settled'[i].kind = "error") =>
            /\ queue' = queue
            /\ activeCount' = activeCount
            /\ \A j \in Idx \ {i} :
                  /\ st'[j] = st[j]
                  /\ settled'[j] = settled[j]
                  /\ results'[j] = results[j]

C3_FailedFinallyStep ==
    \A i \in Idx :
        (st[i] = "recorded" /\ st'[i] = "finished" /\ settled[i].kind = "error"
            /\ queue # <<>> /\ concurrency >= 1) =>
                /\ st[Head(queue)] = "queued"
                /\ st'[Head(queue)] = "readMeta"

C3_FailureIsolation ==
    /\ []C3_Outcomes
    /\ [][C3_RejectionStep /\ C3_FailedFinallyStep]_vars

\* C3 witness: item 1 failed, item 2 (started after it, concurrency 1) succeeded,
\* and process resolved.
C3_Witness ==
    /\ concurrency = 1
    /\ N >= 2
    /\ pc = "resolved"
    /\ returned[1].kind = "error"
    /\ returned[2].kind = "result"

\* C4: wherever process has resolved, every operation has started and
\* finished, and nothing waits in the queue.
C4_ResolvesAfterAll ==
    Resolved =>
        /\ queue = <<>>
        /\ \A i \in Idx :
              /\ StartsOf(i) # {}
              /\ settled[i] # Pending
              /\ results[i] # Hole
              /\ st[i] = "finished"

\* C4 witness: process resolved a batch of which two items had been deferred.
C4_Witness ==
    /\ concurrency = 1
    /\ N = 3
    /\ pc = "resolved"

\* C5: with concurrency k >= 1, operations start in submission order: the p-th
\* invocation is of items[p].
C5_StartOrder ==
    concurrency >= 1 => \A p \in DOMAIN started : started[p] = p

\* C5 witness: item 3 was started from the queue while item 1, started first,
\* is still running (item 2 finished first).
C5_Witness ==
    /\ concurrency = 2
    /\ N = 3
    /\ started = <<1, 2, 3>>
    /\ 1 \in Running
    /\ st[2] = "finished"

\* C6: the operation is invoked at most once per item, exactly once by the time
\* process resolves; a thunk is in the queue exactly while its item waits, and
\* the queue holds no thunk twice.
C6_ExactlyOnce ==
    /\ \A i \in Idx : Cardinality(StartsOf(i)) <= 1
    /\ \A i \in Idx : (\E p \in DOMAIN queue : queue[p] = i) <=> st[i] = "queued"
    /\ \A p, q \in DOMAIN queue : queue[p] = queue[q] => p = q
    /\ \A i \in Idx : st[i] \in {"new", "queued"} <=> StartsOf(i) = {}
    /\ Resolved => \A i \in Idx : Cardinality(StartsOf(i)) = 1

\* C6 witness: both deferred thunks have left the queue and run.
C6_Witness ==
    /\ concurrency = 1
    /\ N = 3
    /\ queue = <<>>
    /\ Len(started) = 3
    /\ pc = "awaiting"

\* C7: process on an empty list resolves (nothing stands in its way) to an
\* empty list, invokes no operation and leaves activeCount and the queue as
\* they were, whatever the concurrency.
C7_EmptyInput ==
    N = 0 =>
        /\ started = <<>>
        /\ activeCount = 0
        /\ queue = <<>>
        /\ pc \in {"init", "exit", "awaiting", "resolved"}
        /\ pc = "awaiting" => ENABLED ProcessReturn
        /\ pc = "resolved" => returned = <<>>

\* C7 witness: an empty batch resolved on a runner built with concurrency 0.
C7_Witness ==
    /\ N = 0
    /\ concurrency = 0
    /\ pc = "resolved"
    /\ returned = <<>>

\* The collaborator calls of processImage, in order.
Pipeline ==
    <<"readImageMetadata", "resizeImage", "stripMetadata", "generateCaption", "writeCaption">>

\* C8 (under FairSpec): with concurrency k >= 2 and between 1 and k-1 hung
\* operations, every other item's operation is eventually started and
\* produces its outcome, at most k operations are ever in flight, and process
\* never resolves.
C8_HungPremise ==
    /\ concurrency >= 2
    /\ hangs # {}
    /\ Cardinality(hangs) < concurrency

\* Every item that does not hang was started and its outcome is stored; this
\* is stable: no step undoes it.
C8_OthersDone ==
    \A i \in Idx \ hangs :
        StartsOf(i) # {} /\ settled[i] # Pending /\ results[i] = Owed(i)

C8_HungSlot ==
    C8_HungPremise =>
        /\ <>C8_OthersDone
        /\ [](Cardinality(Running) <= concurrency /\ ~Resolved)

\* C8 witness: item 1 hangs in one of two slots; items 2 and 3 went through the
\* other and are finished.
C8_Witness ==
    /\ concurrency = 2
    /\ N = 3
    /\ hangs = {1}
    /\ st[1] = "readMeta"
    /\ st[2] = "finished"
    /\ st[3] = "finished"
    /\ pc = "awaiting"

\* The Failure and Success outcomes among what process returned.
FailureOutcomes == {i \in DOMAIN returned : returned[i].kind = "error"}
SuccessOutcomes == {i \in DOMAIN returned : returned[i].kind = "result"}

\* C9: over n >= 1 items with any failures and any error messages, one record
\* is logged per item and the saved summary has total = n, failed = the number
\* of Failure outcomes and successful = the number of Success outcomes.
C9_SummaryCounts ==
    pc = "saved" =>
        /\ Len(logs) = N
        /\ summary.totalImages = N
        /\ summary.failed = Cardinality(FailureOutcomes)
        /\ summary.successful = Cardinality(SuccessOutcomes)

\* C9, what does hold: one record per item, a total of n, and main's own
\* counters equal to the numbers of Success and Failure outcomes.
C9_RecordPerItem ==
    pc = "saved" =>
        /\ Len(logs) = N
        /\ \A i \in Idx : logs[i].imagePath = items[i]
        /\ summary.totalImages = N
        /\ successCount = Cardinality(SuccessOutcomes)
        /\ errorCount = Cardinality(FailureOutcomes)

\* C10: the metadata read never settles the item, and its failure gives the
\* empty context; a stage after it either hands over to the next stage or
\* rejects the item, which then makes no further call; writeCaption is called
\* only with a generated caption; and a failure changes nothing of any other
\* item.
C10_ReadIsBestEffort ==
    \A o \in ExifOutcomes : ~o.ok => ContextCaption(ReadImageMetadata(o)) = Undefined

C10_Calls ==
    \A i \in Idx :
        /\ calls[i] = SubSeq(Pipeline, 1, Len(calls[i]))
        /\ settled[i].kind = "error" => Len(calls[i]) \in 2..5
        /\ settled[i].kind = "result" => calls[i] = Pipeline
        /\ st[i] = "resize" => settled[i] = Pending

C10_ReadStep ==
    \A i \in Idx :
        (st[i] = "readMeta" /\ st'[i] # "readMeta") =>
            /\ st'[i] = "resize"
            /\ settled'[i] = Pending

C10_FailureStep ==
    \A i \in Idx :
        (settled[i] = Pending /\ settled'[i].kind = "error") =>
            /\ calls'[i] = calls[i]
            /\ st[i] \in {"resize", "strip", "caption", "write"}
            /\ \A j \in Idx \ {i} :
                  /\ st'[j] = st[j]
                  /\ calls'[j] = calls[j]
                  /\ existing'[j] = existing[j]
                  /\ caption'[j] = caption[j]
                  /\ settled'[j] = settled[j]
                  /\ results'[j] = results[j]

C10_WriteStep ==
    \A i \in Idx :
        (Len(calls'[i]) = 5 /\ Len(calls[i]) < 5) =>
            /\ st[i] = "caption"
            /\ caption'[i] \in Captions

C10_StageStep ==
    \A i \in Idx :
        /\ (st[i] = "resize" /\ st'[i] # "resize") =>
              (st'[i] = "strip" \/ (st'[i] = "settled" /\ settled'[i].kind = "error"))
        /\ (st[i] = "strip" /\ st'[i] # "strip") =>
              (st'[i] = "caption" \/ (st'[i] = "settled" /\ settled'[i].kind = "error"))
        /\ (st[i] = "caption" /\ st'[i] # "caption") =>
              (st'[i] = "write" \/ (st'[i] = "settled" /\ settled'[i].kind = "error"))
        /\ (st[i] = "write" /\ st'[i] # "write") =>
              /\ st'[i] = "settled"
              /\ settled'[i].kind \in {"result", "error"}
              /\ settled'[i].kind = "result" => settled'[i].val.caption = caption[i]

C10_PipelineFailures ==
    /\ [](C10_ReadIsBestEffort /\ C10_Calls)
    /\ [][C10_ReadStep /\ C10_StageStep /\ C10_FailureStep /\ C10_WriteStep]_vars

\* C10 witness: item 1 failed in caption generation without a write, while
\* item 2, whose metadata gave no context, was captioned and written.
C10_Witness ==
    /\ N >= 2
    /\ settled[1].kind = "error"
    /\ calls[1] = SubSeq(Pipeline, 1, 4)
    /\ settled[2].kind = "result"
    /\ existing[2] = Undefined
    /\ calls[2] = Pipeline

\* A field holds a text: it is present and not empty.
NonEmpty(v) == v # Undefined /\ v # ""

\* The first of the three fields, in order, that holds a text.
FirstNonEmpty(m) ==
    IF NonEmpty(m.CaptionAbstract) THEN m.CaptionAbstract
    ELSE IF NonEmpty(m.Description) THEN m.Description
    ELSE IF NonEmpty(m.ImageDescription) THEN m.ImageDescription
    ELSE Undefined

\* C11 (under SpecContext): the caption context handed to the caption request
\* is the first non-empty field among Caption-Abstract, Description and
\* ImageDescription; it is absent only when all three are absent or empty.
C11_FirstNonEmptyWins ==
    passed # NotBuilt =>
        /\ passed.caption = FirstNonEmpty(exif)
        /\ passed.caption = Undefined <=>
              (~NonEmpty(exif.CaptionAbstract) /\ ~NonEmpty(exif.Description)
                  /\ ~NonEmpty(exif.ImageDescription))

\* C11, for the index.ts that chains the fields with ||: there it holds.
C11_FirstNonEmptyWinsWithOr ==
    passed.version = "index.ts" => passed.caption = FirstNonEmpty(exif)

\* C11, the case that tells the two apart: an empty Caption-Abstract before a
\* Description that holds a text.
C11_EmptyBeforeText ==
    /\ passed # NotBuilt
    /\ exif.CaptionAbstract = ""
    /\ exif.Description = "D"

\* process has been called and has not resolved yet.
Called == pc \in {"mapping", "awaiting"}

\* C12 (under FairSpec): with concurrency k >= 1 and no operation that hangs,
\* a process call eventually resolves, and wherever it has resolved
\* activeCount is 0 and the queue is empty.
C12_Resolves ==
    /\ (Called /\ concurrency >= 1 /\ hangs = {}) ~> Resolved
    /\ []((Resolved /\ concurrency >= 1) => (activeCount = 0 /\ queue = <<>>))

\* C12 witness: a batch with deferred items and a failure has resolved, the
\* runner back at rest.
C12_Witness ==
    /\ concurrency = 1
    /\ N = 3
    /\ hangs = {}
    /\ pc = "resolved"
    /\ settled[2].kind = "error"
    /\ activeCount = 0
    /\ queue = <<>>

\* C13: a runner is built with any concurrency, and with concurrency <= 0 a
\* process call on a non-empty list defers every item in order, starts no
\* operation, keeps activeCount at 0 and never resolves: once the map is
\* through, no step is left to take.
C13_NonPositiveConcurrency ==
    (concurrency <= 0 /\ N > 0) =>
        /\ started = <<>>
        /\ Running = {}
        /\ activeCount = 0
        /\ ~Resolved
        /\ pc = "mapping" => queue = [p \in 1..(mapIdx - 1) |-> p]
        /\ pc = "awaiting" =>
              /\ queue = [p \in 1..N |-> p]
              /\ \A i \in Idx : st[i] = "queued"
              /\ ~ENABLED Next

\* C13 witness: built with -1, three items all deferred, process pending.
C13_Witness ==
    /\ concurrency = -1
    /\ N = 3
    /\ pc = "awaiting"
    /\ queue = <<1, 2, 3>>

\* C14: with concurrency k >= 1, work waits only while all k slots are taken:
\* a non-empty queue implies activeCount = k; an item is deferred only at
\* activeCount = k; and a finally that finds a thunk waiting starts it in
\* the same step.
C14_NoIdleSlot ==
    (concurrency >= 1 /\ queue # <<>>) => activeCount = concurrency

C14_DeferStep ==
    (concurrency >= 1 /\ Len(queue') > Len(queue)) =>
        /\ activeCount = concurrency
        /\ activeCount' = concurrency

C14_CompletionStep ==
    \A i \in Idx :
        (concurrency >= 1 /\ st[i] = "recorded" /\ st'[i] = "finished" /\ queue # <<>>) =>
            /\ queue' = Tail(queue)
            /\ st'[Head(queue)] = "readMeta"
            /\ activeCount' = activeCount

C14_SlotsNeverIdle ==
    /\ []C14_NoIdleSlot
    /\ [][C14_DeferStep /\ C14_CompletionStep]_vars

\* C14 witness: one completion has handed its slot to the queue's head, and
\* the next item still waits with the only slot taken.
C14_Witness ==
    /\ concurrency = 1
    /\ N = 3
    /\ st[1] = "finished"
    /\ 2 \in Running
    /\ queue = <<3>>
    /\ activeCount = 1
====
